---- MODULE Spec2Model ----
(***************************************************************************)
(* Model of src/src/index.ts: the type-narrowing demo calcAge with its     *)
(* type predicate isPerson (zod schema personSchema) and its assertion     *)
(* function assertNonNullable.  diffInYears and parse are only declared in *)
(* the source; they are modelled as two fixed but arbitrary functions      *)
(* chosen by the environment in Init.                                      *)
(***************************************************************************)
EXTENDS Integers, Sequences, FiniteSets, TLC

VARIABLES parseFn, diffFn, pc, input, branch, arg, calls, outcome, completed, probe

vars == <<parseFn, diffFn, pc, input, branch, arg, calls, outcome, completed, probe>>

(* Number of distinct inputs whose completed calls are remembered. *)
MaxCalls == 2

-----------------------------------------------------------------------------
(* JavaScript values.  Every value carries its runtime kind in field t.    *)

Null == [t |-> "null"]
Undefined == [t |-> "undefined"]

Str(s) == [t |-> "string", s |-> s]
Texts == {Str(""), Str("2000-01-01")}

(* A Date object: valid with a time value, or an Invalid Date (NaN time).  *)
D2000 == [t |-> "date", valid |-> TRUE, year |-> 2000]
InvalidDate == [t |-> "date", valid |-> FALSE, year |-> 0]
Dates == {D2000, InvalidDate}

Obj(props) == [t |-> "object", props |-> props]
Arr == [t |-> "array"]

(* type Person = { birthday: Date } (structural: extra attributes allowed) *)
Persons == {Obj([birthday |-> d]) : d \in Dates}
(* type PersonJson = { birthday: string } *)
PersonJsons == {Obj([birthday |-> s]) : s \in Texts}

(* The parameter type of calcAge: Date | null | undefined | string |       *)
(* Person | PersonJson.                                                    *)
AgeInputs == {Null, Undefined} \cup Texts \cup Dates \cup Persons \cup PersonJsons

(* Values of type unknown offered to isPerson and assertNonNullable.       *)
Unknowns ==
    AgeInputs \cup
    { [t |-> "number", n |-> 0], [t |-> "boolean", b |-> FALSE], Arr,
      Obj(<<>>), Obj([name |-> Str("")]),
      Obj([birthday |-> [t |-> "number", n |-> 0]]),
      Obj([birthday |-> Null]),
      Obj([birthday |-> D2000, name |-> Str("")]),
      Obj([birthday |-> Str("2000-01-01"), name |-> Str("")]) }

(* Results of diffInYears. *)
Nums == {0, 25}

ParseError == [t |-> "error", message |-> "ParseError"]
AbsentError == [t |-> "error", message |-> "undefined or null are not allowed"]

None == [t |-> "none"]
NoProbe == [fn |-> "none"]

Returned(n) == [kind |-> "return", value |-> n]
Thrown(e) == [kind |-> "throw", error |-> e]
TypeError == [t |-> "error", message |-> "TypeError"]

-----------------------------------------------------------------------------
(* JavaScript operators used by the source.                                *)

(* typeof value *)
typeof(v) ==
    IF v.t \in {"null", "date", "array", "object"} THEN "object" ELSE v.t

(* value instanceof Date: true of every Date object, Invalid Date too.     *)
instanceofDate(v) == v.t = "date"

(* value.key on a present value: undefined when the attribute is missing.  *)
Get(v, key) ==
    IF v.t = "object" /\ key \in DOMAIN v.props THEN v.props[key] ELSE Undefined

-----------------------------------------------------------------------------
(* personSchema = z.object({ birthday: z.date() })                         *)

(* zod's runtime classification of a value. *)
getParsedType(v) == v.t

(* z.date(): accepts a Date object whose time value is not NaN.            *)
z_date(v) == getParsedType(v) = "date" /\ v.valid

(* personSchema.safeParse(value): never throws, reports in .success;       *)
(* unknown keys are stripped, so extra attributes do not matter.           *)
personSchema_safeParse(v) ==
    [success |-> getParsedType(v) = "object" /\ z_date(Get(v, "birthday"))]

(* function isPerson(value: unknown): value is Person *)
isPerson(v) == personSchema_safeParse(v).success

(* Variant: the guard tests only for undefined. *)
assertNonNullable_onlyUndefined(v) ==
    IF v = Undefined THEN Thrown(AbsentError) ELSE [kind |-> "return"]

(* Variant: the guard tests falsiness, if (!value). *)
assertNonNullable_falsy(v) ==
    IF v \in {Undefined, Null, Str(""), [t |-> "number", n |-> 0], [t |-> "boolean", b |-> FALSE]}
    THEN Thrown(AbsentError) ELSE [kind |-> "return"]

(* function assertNonNullable<T>(value: T): asserts value is NonNullable<T> *)
assertNonNullable(v) ==
    IF v = Undefined \/ v = Null THEN Thrown(AbsentError) ELSE [kind |-> "return"]

-----------------------------------------------------------------------------
(* The declared utilities, as the environment supplies them.               *)

(* parse(value): a Date, or a failure on malformed text.                   *)
ApplyParse(a) == IF a \in DOMAIN parseFn THEN parseFn[a] ELSE ParseError

(* diffInYears(value): a number (-1 stands for NaN).                       *)
ApplyDiff(a) == IF a \in DOMAIN diffFn THEN diffFn[a] ELSE -1

-----------------------------------------------------------------------------
(* calcAge: the if / else-if chain of lines 31-39.                         *)

(* Variant: the instanceof Date test is missing from the chain. *)
Branch_noInstanceof(v) ==
    IF typeof(v) = "string" THEN "string"
    ELSE IF isPerson(v) THEN "person"
    ELSE "fallback"

Branch(v) ==
    IF typeof(v) = "string" THEN "string"
    ELSE IF instanceofDate(v) THEN "date"
    ELSE IF isPerson(v) THEN "person"
    ELSE "fallback"

(* Variant: the textual branch hands the text to diffInYears unparsed. *)
BranchStep_noParse(b) == IF b = "fallback" THEN "parse" ELSE "diff"

(* The step each branch takes first, and the value it takes it on.         *)
BranchStep(b) == IF b \in {"string", "fallback"} THEN "parse" ELSE "diff"

(* Variant: the fallback branch parses the record instead of its birthday. *)
BranchArg_wholeRecord(v, b) ==
    IF b \in {"string", "date", "fallback"} THEN v ELSE Get(v, "birthday")

BranchArg(v, b) ==
    IF b \in {"string", "date"} THEN v ELSE Get(v, "birthday")

TypeOK ==
    /\ pc \in {"idle", "assert", "dispatch", "parse", "diff", "done", "probed"}
    /\ branch \in {"none", "string", "date", "person", "fallback"}
    /\ calls \in Seq([fn : {"parse", "diffInYears"}, arg : Texts \cup Dates])
    /\ Len(calls) <= 2

Init ==
    /\ parseFn \in [Texts \cup {InvalidDate} -> Dates \cup {ParseError}]
    /\ diffFn \in [Dates -> Nums]
    /\ pc = "idle"
    /\ input = None
    /\ branch = "none"
    /\ arg = None
    /\ calls = <<>>
    /\ outcome = None
    /\ completed = {}
    /\ probe = NoProbe

(* A caller invokes calcAge(v). *)
Call(v) ==
    /\ pc = "idle"
    /\ Cardinality(completed) < MaxCalls \/ \E h \in completed : h.input = v
    /\ pc' = "assert"
    /\ input' = v
    /\ branch' = "none"
    /\ arg' = None
    /\ calls' = <<>>
    /\ outcome' = None
    /\ UNCHANGED <<parseFn, diffFn, completed, probe>>

(* line 29: assertNonNullable(input) *)
AssertStep ==
    /\ pc = "assert"
    /\ LET r == assertNonNullable(input) IN
         IF r.kind = "throw"
         THEN outcome' = r /\ pc' = "done"
         ELSE outcome' = outcome /\ pc' = "dispatch"
    /\ UNCHANGED <<parseFn, diffFn, input, branch, arg, calls, completed, probe>>

(* lines 31-38: the branch tests, and the evaluation of the argument       *)
(* expression of the chosen branch (reading .birthday of null or undefined *)
(* is a TypeError).                                                        *)
Dispatch ==
    /\ pc = "dispatch"
    /\ LET b == Branch(input) IN
         /\ branch' = b
         /\ IF b \in {"person", "fallback"} /\ input \in {Null, Undefined}
            THEN outcome' = Thrown(TypeError) /\ pc' = "done" /\ arg' = arg
            ELSE outcome' = outcome /\ pc' = BranchStep(b) /\ arg' = BranchArg(input, b)
    /\ UNCHANGED <<parseFn, diffFn, input, calls, completed, probe>>

(* Variant: the fallback branch stores the parsed Date back into the       *)
(* record, input.birthday = parse(input.birthday).                         *)
Parse_writeBack ==
    /\ pc = "parse"
    /\ calls' = Append(calls, [fn |-> "parse", arg |-> arg])
    /\ LET r == ApplyParse(arg) IN
         IF r = ParseError
         THEN outcome' = Thrown(r) /\ pc' = "done" /\ arg' = arg /\ input' = input
         ELSE /\ outcome' = outcome /\ pc' = "diff" /\ arg' = r
              /\ input' = IF branch = "fallback" /\ input.t = "object"
                          THEN [input EXCEPT !.props.birthday = r]
                          ELSE input
    /\ UNCHANGED <<parseFn, diffFn, branch, completed, probe>>

(* Variant: a failure of parse is caught and an Invalid Date used instead. *)
Parse_recover ==
    /\ pc = "parse"
    /\ calls' = Append(calls, [fn |-> "parse", arg |-> arg])
    /\ LET r == ApplyParse(arg) IN
         arg' = IF r = ParseError THEN InvalidDate ELSE r
    /\ pc' = "diff"
    /\ UNCHANGED <<parseFn, diffFn, input, branch, outcome, completed, probe>>

(* lines 32, 38: parse(...) *)
Parse ==
    /\ pc = "parse"
    /\ calls' = Append(calls, [fn |-> "parse", arg |-> arg])
    /\ LET r == ApplyParse(arg) IN
         IF r = ParseError
         THEN outcome' = Thrown(r) /\ pc' = "done" /\ arg' = arg
         ELSE outcome' = outcome /\ pc' = "diff" /\ arg' = r
    /\ UNCHANGED <<parseFn, diffFn, input, branch, completed, probe>>

(* Variant: diffInYears is evaluated twice for one result. *)
Diff_twice ==
    /\ pc = "diff"
    /\ calls' = Append(Append(calls, [fn |-> "diffInYears", arg |-> arg]),
                       [fn |-> "diffInYears", arg |-> arg])
    /\ outcome' = Returned(ApplyDiff(arg))
    /\ pc' = "done"
    /\ UNCHANGED <<parseFn, diffFn, input, branch, arg, completed, probe>>

(* Variant: the result depends on how many calls were served before. *)
Diff_counting ==
    /\ pc = "diff"
    /\ calls' = Append(calls, [fn |-> "diffInYears", arg |-> arg])
    /\ outcome' = Returned(ApplyDiff(arg) + Cardinality(completed))
    /\ pc' = "done"
    /\ UNCHANGED <<parseFn, diffFn, input, branch, arg, completed, probe>>

(* lines 32, 34, 36, 38: return diffInYears(...) *)
Diff ==
    /\ pc = "diff"
    /\ calls' = Append(calls, [fn |-> "diffInYears", arg |-> arg])
    /\ outcome' = Returned(ApplyDiff(arg))
    /\ pc' = "done"
    /\ UNCHANGED <<parseFn, diffFn, input, branch, arg, completed, probe>>

(* The call ends: its caller sees the outcome. *)
Return ==
    /\ pc = "done"
    /\ completed' = completed \cup
         {[input |-> input, branch |-> branch, calls |-> calls, outcome |-> outcome]}
    /\ pc' = "idle"
    /\ input' = None
    /\ branch' = "none"
    /\ arg' = None
    /\ calls' = <<>>
    /\ outcome' = None
    /\ UNCHANGED <<parseFn, diffFn, probe>>

(* A caller invokes isPerson(v) on its own. *)
IsPersonCall(v) ==
    /\ pc = "idle"
    /\ pc' = "probed"
    /\ probe' = [fn |-> "isPerson", arg |-> v, holds |-> isPerson(v)]
    /\ UNCHANGED <<parseFn, diffFn, input, branch, arg, calls, outcome, completed>>

(* A caller invokes assertNonNullable(v) on its own. *)
AssertCall(v) ==
    /\ pc = "idle"
    /\ pc' = "probed"
    /\ probe' = [fn |-> "assertNonNullable", arg |-> v, result |-> assertNonNullable(v)]
    /\ UNCHANGED <<parseFn, diffFn, input, branch, arg, calls, outcome, completed>>

(* The caller of isPerson or assertNonNullable takes the result and goes on. *)
ProbeReturn ==
    /\ pc = "probed"
    /\ pc' = "idle"
    /\ probe' = NoProbe
    /\ UNCHANGED <<parseFn, diffFn, input, branch, arg, calls, outcome, completed>>

Next ==
    \/ \E v \in AgeInputs : Call(v)
    \/ AssertStep
    \/ Dispatch
    \/ Parse
    \/ Diff
    \/ Return
    \/ \E v \in Unknowns : IsPersonCall(v)
    \/ \E v \in Unknowns : AssertCall(v)
    \/ ProbeReturn

Spec == Init /\ [][Next]_vars

-----------------------------------------------------------------------------
(* Properties.                                                             *)

(* The calls of calcAge that have ended: those already returned to their   *)
(* caller and the one that has just reached its end.                       *)
Finished ==
    completed \cup
      (IF pc = "done"
       THEN {[input |-> input, branch |-> branch, calls |-> calls, outcome |-> outcome]}
       ELSE {})

Absent == {Null, Undefined}

ParseCall(a) == [fn |-> "parse", arg |-> a]
DiffCall(a) == [fn |-> "diffInYears", arg |-> a]

(* C1: for null and for undefined, calcAge fails with the error of the     *)
(* absence guard and calls neither diffInYears nor parse, before or after  *)
(* the failure; the guard runs before any branch test, so no branch is     *)
(* ever chosen for an absent input.                                        *)
C1_AbsentFailsBeforeDispatch ==
    /\ \A h \in Finished :
         h.input \in Absent =>
           /\ h.outcome = Thrown(AbsentError)
           /\ h.calls = <<>>
           /\ h.branch = "none"
    /\ pc \in {"dispatch", "parse", "diff"} => input \notin Absent
    /\ input \in Absent => calls = <<>> /\ branch = "none"

C1_Witness ==
    /\ \E h \in completed : h.input = Null /\ h.outcome = Thrown(AbsentError)
    /\ \E h \in completed : h.input = Undefined /\ h.outcome = Thrown(AbsentError)

(* C2: isPerson returns true exactly when its argument is a non-null       *)
(* object that has a birthday attribute which is a Date object, and false  *)
(* for every other value.                                                  *)
C2_IsPersonIffDateBirthday ==
    probe.fn = "isPerson" =>
      (probe.holds <=>
         /\ probe.arg.t = "object"
         /\ "birthday" \in DOMAIN probe.arg.props
         /\ probe.arg.props.birthday.t = "date")

(* C3: assertNonNullable returns normally exactly for the values other     *)
(* than null and undefined, the falsy ones among them, and fails with the  *)
(* absence error otherwise; calcAge given the empty text passes the guard  *)
(* and takes the textual branch.                                           *)
C3_GuardPassesExactlyPresent ==
    /\ probe.fn = "assertNonNullable" =>
         /\ probe.result.kind = "return" <=> probe.arg \notin Absent
         /\ probe.arg \in Absent => probe.result = Thrown(AbsentError)
    /\ \A h \in Finished :
         h.input = Str("") =>
           /\ h.branch = "string"
           /\ h.calls # <<>> /\ h.calls[1] = ParseCall(Str(""))
           /\ h.outcome # Thrown(AbsentError)

C3_Witness ==
    /\ probe.fn = "assertNonNullable"
    /\ probe.arg = [t |-> "number", n |-> 0]
    /\ probe.result.kind = "return"
    /\ \E h \in completed : h.input = Str("") /\ h.branch = "string"

(* C4 as stated: for every textual input calcAge calls parse once with the *)
(* text, then diffInYears once with the value parse returned, and returns  *)
(* the result of diffInYears unchanged.                                    *)
C4_TextAlwaysParsedThenDiffed ==
    \A h \in Finished :
      h.input \in Texts =>
        /\ Len(h.calls) = 2
        /\ h.calls[1] = ParseCall(h.input)
        /\ h.calls[2] = DiffCall(parseFn[h.input])
        /\ h.outcome = Returned(diffFn[parseFn[h.input]])

(* C4 amended: for every textual input calcAge first calls parse, once,    *)
(* with the text; when parse returns a value, calcAge then calls           *)
(* diffInYears once with that value and returns its result unchanged; when *)
(* parse fails, diffInYears is not called and no number is returned.       *)
C4_TextParsedThenDiffedIfParsed ==
    \A h \in Finished :
      h.input \in Texts =>
        /\ h.branch = "string"
        /\ h.calls # <<>> /\ h.calls[1] = ParseCall(h.input)
        /\ IF parseFn[h.input] = ParseError
           THEN Len(h.calls) = 1 /\ h.outcome.kind = "throw"
           ELSE /\ Len(h.calls) = 2
                /\ h.calls[2] = DiffCall(parseFn[h.input])
                /\ h.outcome = Returned(diffFn[parseFn[h.input]])

C4_Witness ==
    \E h \in completed :
      /\ h.input = Str("2000-01-01")
      /\ parseFn[h.input] = D2000
      /\ h.calls = <<ParseCall(h.input), DiffCall(D2000)>>
      /\ h.outcome = Returned(25)

(* C5: for every Date input d, calcAge calls diffInYears once, on d, calls *)
(* parse not at all, and returns the number that calcAge returns for any   *)
(* text that parse maps to d.                                              *)
C5_DateDiffedDirectly ==
    \A h \in Finished :
      h.input \in Dates =>
        /\ h.branch = "date"
        /\ h.calls = <<DiffCall(h.input)>>
        /\ h.outcome.kind = "return"
        /\ h.outcome.value = diffFn[h.input]
        /\ \A g \in Finished :
             g.input \in Texts /\ parseFn[g.input] = h.input => g.outcome = h.outcome

C5_Witness ==
    \E h \in completed : \E g \in Finished :
      /\ h.input = D2000 /\ h.calls = <<DiffCall(D2000)>>
      /\ g.input \in Texts /\ parseFn[g.input] = D2000
      /\ g.outcome = h.outcome /\ h.outcome.kind = "return"

(* C6: for every object whose birthday attribute is a Date d, isPerson is  *)
(* true and calcAge takes the Person branch: one diffInYears call, on d,   *)
(* no parse call, and the same result as calcAge(d).                       *)
C6_PersonDiffedOnBirthday ==
    \A h \in Finished :
      h.input \in Persons =>
        /\ isPerson(h.input)
        /\ h.branch = "person"
        /\ h.calls = <<DiffCall(h.input.props.birthday)>>
        /\ \A g \in Finished :
             g.input = h.input.props.birthday => g.outcome = h.outcome

(* C7 as stated: for every object whose birthday attribute is a text t,    *)
(* isPerson is false and calcAge takes the fallback branch: one parse call *)
(* on t, then one diffInYears call on the parsed value, and the same       *)
(* result as calcAge(t).                                                   *)
C7_JsonAlwaysParsedThenDiffed ==
    \A h \in Finished :
      h.input \in PersonJsons =>
        /\ ~isPerson(h.input)
        /\ h.branch = "fallback"
        /\ Len(h.calls) = 2
        /\ h.calls[1] = ParseCall(h.input.props.birthday)
        /\ h.calls[2] = DiffCall(parseFn[h.input.props.birthday])
        /\ \A g \in Finished :
             g.input = h.input.props.birthday => g.outcome = h.outcome

(* C7 amended: for every object whose birthday attribute is a text t,      *)
(* isPerson is false and calcAge takes the fallback branch: one parse call *)
(* on t, first; when parse returns a value, one diffInYears call on it     *)
(* follows, and when parse fails none does; the call ends as calcAge(t)    *)
(* ends, with the same number or the same failure.                         *)
C7_JsonParsedThenDiffedIfParsed ==
    \A h \in Finished :
      h.input \in PersonJsons =>
        /\ ~isPerson(h.input)
        /\ h.branch = "fallback"
        /\ h.calls # <<>> /\ h.calls[1] = ParseCall(h.input.props.birthday)
        /\ IF parseFn[h.input.props.birthday] = ParseError
           THEN Len(h.calls) = 1 /\ h.outcome.kind = "throw"
           ELSE /\ Len(h.calls) = 2
                /\ h.calls[2] = DiffCall(parseFn[h.input.props.birthday])
                /\ h.outcome.kind = "return"
        /\ \A g \in Finished :
             g.input = h.input.props.birthday => g.outcome = h.outcome

C7_Witness ==
    \E h \in completed : \E g \in Finished :
      /\ h.input = Obj([birthday |-> Str("2000-01-01")])
      /\ h.branch = "fallback"
      /\ h.calls = <<ParseCall(Str("2000-01-01")), DiffCall(D2000)>>
      /\ g.input = Str("2000-01-01")
      /\ g.outcome = h.outcome /\ h.outcome.kind = "return"

(* A parse call on a text that parse rejects. *)
FailedParse(c) == c.fn = "parse" /\ c.arg \in Texts /\ parseFn[c.arg] = ParseError

(* C8: when parse fails on a text, in the textual branch or in the         *)
(* fallback branch, calcAge fails with that same failure: diffInYears is   *)
(* not called, parse is not called again, and no number is returned.       *)
C8_ParseFailurePropagates ==
    /\ \A h \in Finished :
         (\E i \in 1..Len(h.calls) : FailedParse(h.calls[i])) =>
           /\ h.branch \in {"string", "fallback"}
           /\ Len(h.calls) = 1
           /\ h.outcome = Thrown(ParseError)
    /\ (\E i \in 1..Len(calls) : FailedParse(calls[i])) =>
         pc = "done" /\ outcome = Thrown(ParseError)

C8_Witness ==
    /\ \E h \in completed :
         h.branch = "string" /\ FailedParse(h.calls[1]) /\ h.outcome = Thrown(ParseError)
    /\ \E h \in completed :
         h.branch = "fallback" /\ FailedParse(h.calls[1]) /\ h.outcome = Thrown(ParseError)

(* C9: two calls of calcAge with the same input end alike, with the same   *)
(* number or the same failure, whatever calls were made between them.      *)
C9_SameInputSameOutcome ==
    \A h \in Finished : \A g \in Finished :
      h.input = g.input => h.outcome = g.outcome /\ h.calls = g.calls

(* A second call with an input served before has just ended, and a call    *)
(* with another input has been served too.                                 *)
C9_Witness ==
    /\ pc = "done"
    /\ outcome.kind = "return"
    /\ \E h \in completed : h.input = input /\ h.outcome = outcome
    /\ \E h \in completed : h.input # input /\ h.outcome # outcome

(* C10: whenever calcAge calls parse, the argument is a text; an input     *)
(* reaches the fallback branch only if its birthday attribute is a text,   *)
(* so the Date birthday of a Person is never handed to parse.              *)
C10_ParseOnlyGetsText ==
    /\ \A i \in 1..Len(calls) : calls[i].fn = "parse" => calls[i].arg.t = "string"
    /\ branch = "fallback" => Get(input, "birthday").t = "string"

(* The positions of the calls of fn in a call sequence. *)
CallsOf(cs, fn) == {i \in 1..Len(cs) : cs[i].fn = fn}

(* The branch the first matching test of the chain selects: textual, then  *)
(* Date, then Person, then the fallback.                                   *)
FirstMatch(v, b) ==
    /\ b = "string" <=> typeof(v) = "string"
    /\ b = "date" <=> typeof(v) # "string" /\ instanceofDate(v)
    /\ b = "person" <=> typeof(v) # "string" /\ ~instanceofDate(v) /\ isPerson(v)
    /\ b = "fallback" <=> typeof(v) # "string" /\ ~instanceofDate(v) /\ ~isPerson(v)

(* C11: for every present input calcAge takes exactly one of its four      *)
(* branches, the first whose test matches in the order textual, Date,      *)
(* Person, fallback; a call that returns a number has made exactly one     *)
(* diffInYears call and at most one parse call, the parse call first.      *)
C11_OneBranchOneDiff ==
    /\ \A h \in Finished :
         h.input \notin Absent =>
           /\ h.branch \in {"string", "date", "person", "fallback"}
           /\ FirstMatch(h.input, h.branch)
           /\ h.outcome.kind = "return" =>
                /\ Cardinality(CallsOf(h.calls, "diffInYears")) = 1
                /\ Cardinality(CallsOf(h.calls, "parse")) <= 1
                /\ \A i \in CallsOf(h.calls, "parse") :
                     \A j \in CallsOf(h.calls, "diffInYears") : i < j
    /\ pc \in {"parse", "diff"} =>
         /\ branch \in {"string", "date", "person", "fallback"}
         /\ FirstMatch(input, branch)
         /\ CallsOf(calls, "diffInYears") = {}

C11_Witness ==
    /\ \E h \in completed :
         h.branch = "person" /\ h.outcome.kind = "return" /\ Len(h.calls) = 1
    /\ pc = "done"
    /\ branch = "fallback"
    /\ outcome.kind = "return"
    /\ calls = <<ParseCall(input.props.birthday), DiffCall(parseFn[input.props.birthday])>>

(* C12: calcAge, and isPerson and assertNonNullable as it calls them,      *)
(* leave the argument as it was passed, with the same shape and the same   *)
(* birthday attribute, when the call succeeds and when it fails; the two   *)
(* utilities stay the same functions and nothing of a call is left when it *)
(* has returned.                                                           *)
C12_ArgumentAndStateUntouched ==
    [][ /\ pc \in {"assert", "dispatch", "parse", "diff"} => input' = input
        /\ pc = "done" =>
             \E h \in completed' : h.input = input /\ h.outcome = outcome
        /\ pc = "probed" => completed' = completed
        /\ parseFn' = parseFn /\ diffFn' = diffFn
        /\ pc' = "idle" =>
             /\ input' = None /\ branch' = "none" /\ arg' = None
             /\ calls' = <<>> /\ outcome' = None /\ probe' = NoProbe
      ]_vars

(* A call on a record has just returned a number after a parse of its      *)
(* birthday, and a call that failed has been served before.                *)
C12_Witness ==
    /\ pc = "done"
    /\ input \in PersonJsons
    /\ outcome.kind = "return"
    /\ Len(calls) = 2
    /\ \E h \in completed : h.outcome.kind = "throw"

====
